---- MODULE Spec2Model ----
(***************************************************************************)
(* Model of tenmicronsync.py: the TenMicronManager session (connect,       *)
(* close, send_command, receive_response, the four typed operations), the  *)
(* SIGINT handler and the polling loop of main.                            *)
(*                                                                         *)
(* The interpreter is modelled as a call stack of frames; every action is  *)
(* one step of the frame on top of the stack.  An exception in flight is   *)
(* held in exc and unwinds the stack one frame per step.                   *)
(***************************************************************************)
EXTENDS Integers, Sequences, FiniteSets, TLC

\* ---------------------------------------------------------------- bounds
\* sockets the process can create before socket.socket() itself fails
MaxSockets == 2
\* iterations of the polling loop
MaxTicks == 1
\* SIGINT deliveries
MaxInterrupts == 1
\* method calls a client makes on one TenMicronManager object
MaxCalls == 3
\* the interpreter's limit on nested calls (sys.getrecursionlimit() is 1000;
\* the code never changes it), scaled down
RecursionLimit == 6
\* largest magnitude, in degrees, of the temperatures that are encoded
MaxTemp == 1001

\* numbers are binary fractions: a value v stands for v / Unit
Unit == 32

VARIABLES
    stack,       \* call stack, innermost frame last
    exc,         \* exception in flight, or "none"
    ret,         \* value returned by the last frame that returned
    connection,  \* self.connection: 0 for None, else a socket id
    open,        \* socket ids whose descriptor is open
    linked,      \* socket ids on which connect((ip, port)) succeeded
    nextSock,    \* number of sockets created so far
    tick,        \* completed iterations of the polling loop
    interrupts,  \* SIGINTs delivered
    status,      \* "running", "exited" (SystemExit) or "crashed"
    exitCode,    \* process exit code once not running
    wrote,       \* per socket: commands written on it by the current typed operation
    pend,        \* per socket: commands written minus response reads completed
    closes,      \* per socket: number of socket.close() calls made on it
    readSock,    \* socket the current operation's last response was read from (0: none)
    lastRaw,     \* bytes returned by that recv, before strip()
    result,      \* <<operation, value>> of the last typed operation that returned
    intAt,       \* snapshot taken when the first SIGINT arrived
    encIn,       \* temperature handed to the encoder
    encOut       \* command the encoder built from encIn (<<>>: not yet)

vars == <<stack, exc, ret, connection, open, linked, nextSock, tick,
          interrupts, status, exitCode, wrote, pend, closes, readSock,
          lastRaw, result, intAt, encIn, encOut>>

sessionVars == <<stack, exc, ret, connection, open, linked, nextSock, tick,
                 interrupts, status, exitCode, wrote, pend, closes, readSock,
                 lastRaw, result, intAt>>

\* ------------------------------------------------------------ text values
None == <<"None">>

Chr(d) == <<"0", "1", "2", "3", "4", "5", "6", "7", "8", "9">>[d + 1]

IsDigit(c) == c \in {"0", "1", "2", "3", "4", "5", "6", "7", "8", "9"}

DigitVal(c) == CHOOSE d \in 0..9 : Chr(d) = c

IsSpace(c) == c \in {" ", "\n", "\r", "\t"}

RECURSIVE Digits(_)
\* decimal digits of a natural number, most significant first
Digits(n) == IF n < 10 THEN <<Chr(n)>> ELSE Digits(n \div 10) \o <<Chr(n % 10)>>

RECURSIVE Zeros(_)
Zeros(k) == IF k <= 0 THEN <<>> ELSE <<"0">> \o Zeros(k - 1)

Abs(v) == IF v < 0 THEN 0 - v ELSE v

\* |v| / Unit rounded to tenths, exact ties to the even tenth
RoundTenths(v) ==
    LET n == Abs(v) * 10
        q == n \div Unit
        r == n % Unit
    IN  IF 2 * r > Unit THEN q + 1
        ELSE IF 2 * r < Unit THEN q
        ELSE IF q % 2 = 0 THEN q ELSE q + 1

\* the body of format(v, ".1f") without its sign
Fixed1(v) ==
    LET t == RoundTenths(v)
    IN  Digits(t \div 10) \o <<".">> \o <<Chr(t % 10)>>

\* format(v, ".1f")
FormatPressure(v) == (IF v < 0 THEN <<"-">> ELSE <<>>) \o Fixed1(v)

FormatTemperatureUnpadded(v) ==
    (IF v < 0 THEN <<"-">> ELSE <<"+">>) \o Fixed1(v)

FormatTemperatureWidth5(v) ==
    LET body == Fixed1(v)
    IN  (IF v < 0 THEN <<"-">> ELSE <<"+">>) \o Zeros(5 - 1 - Len(body)) \o body

\* format(v, "+06.1f"): sign always, zeros between sign and digits up to width 6
FormatTemperature(v) ==
    LET body == Fixed1(v)
    IN  (IF v < 0 THEN <<"-">> ELSE <<"+">>) \o Zeros(6 - 1 - Len(body)) \o body

SetTemperatureCommand(v) ==
    <<":", "S", "R", "T", "M", "P">> \o FormatTemperature(v) \o <<"#">>

SetPressureCommand(v) ==
    <<":", "S", "R", "P", "R", "S">> \o FormatPressure(v) \o <<"#">>

GetPressureCommand == <<":", "G", "R", "P", "R", "S", "#">>

GetTemperatureCommand == <<":", "G", "R", "T", "M", "P", "#">>

RECURSIVE LStrip(_)
LStrip(s) == IF s # <<>> /\ IsSpace(Head(s)) THEN LStrip(Tail(s)) ELSE s

RECURSIVE RStrip(_)
RStrip(s) ==
    IF s # <<>> /\ IsSpace(s[Len(s)]) THEN RStrip(SubSeq(s, 1, Len(s) - 1)) ELSE s

\* str.strip()
Strip(s) == RStrip(LStrip(s))

RECURSIVE RStripHash(_)
\* str.rstrip('#')
RStripHash(s) ==
    IF s # <<>> /\ s[Len(s)] = "#" THEN RStripHash(SubSeq(s, 1, Len(s) - 1)) ELSE s

IsFloatTextMutant(s) == s # <<>>

\* float(): [sign] digits [. digits] with at least one digit, as the pair
\* <<mantissa, fractional digits>> without trailing fractional zeros; None when
\* the text is no number (ValueError).  The exponent, inf and nan forms float()
\* also takes do not occur among Responses.
IsFloatText(s) ==
    LET b == IF s # <<>> /\ s[1] \in {"+", "-"} THEN Tail(s) ELSE s
    IN  /\ \E i \in 1..Len(b) : IsDigit(b[i])
        /\ \A i \in 1..Len(b) : IsDigit(b[i]) \/ b[i] = "."
        /\ Cardinality({i \in 1..Len(b) : b[i] = "."}) <= 1

RECURSIVE DigitsValue(_)
DigitsValue(d) ==
    IF d = <<>> THEN 0 ELSE 10 * DigitsValue(SubSeq(d, 1, Len(d) - 1)) + DigitVal(d[Len(d)])

RECURSIVE Normal(_, _)
Normal(m, k) == IF k > 0 /\ m % 10 = 0 THEN Normal(m \div 10, k - 1) ELSE <<m, k>>

ParseFloat(s) ==
    IF ~IsFloatText(s) THEN None
    ELSE LET neg == s[1] = "-"
             b == IF s[1] \in {"+", "-"} THEN Tail(s) ELSE s
             dot == IF \E i \in 1..Len(b) : b[i] = "."
                    THEN CHOOSE i \in 1..Len(b) : b[i] = "." ELSE Len(b) + 1
             m == DigitsValue(SelectSeq(b, IsDigit))
             n == Normal(m, IF dot > Len(b) THEN 0 ELSE Len(b) - dot)
         IN  <<IF neg THEN 0 - n[1] ELSE n[1], n[2]>>

\* ------------------------------------------------------------ environment
\* what one recv(1024) can deliver in answer to a command
Responses == { <<"1">>, <<"0">>, <<"1", "\n">>, <<"7", ".", "0", "#">>, <<"e">> }

\* zero bytes: the peer closed the connection
Eof == <<>>

\* the weather readings a tick can see: <<temperature, pressure>>; NoData is
\* main's data before its first fetch
NoData == <<>>
Readings == { <<0 - (3 * Unit + 8), 1013 * Unit + 8>> }

Sockets == 1..MaxSockets

\* ---------------------------------------------------------- weather source
\* a dict is a function on its keys
Has(d, k) == k \in DOMAIN d

Get(d, k, default) == IF Has(d, k) THEN d[k] ELSE default

\* what call_api can return: the error dict of line 20 (status other than 200)
\* or of line 22 (transport failure), or the JSON body, whose Response object
\* holds any of the two fields of a reading
ApiResults ==
    { [Error |-> "Failed to get data"], [Error |-> "An error occurred"] }
    \cup { [Response |-> [k \in K |-> IF k = "Temperature" THEN r[1] ELSE r[2]]] :
             K \in SUBSET {"Temperature", "Pressure"}, r \in Readings }

MissingData == << "Error: Temperature and/or pressure data missing." >>

GetTemperatureAndPressureMutant(data) ==
    LET response == Get(data, "Response", <<>>)
    IN  IF Has(response, "Temperature") \/ Has(response, "Pressure")
        THEN << Get(response, "Temperature", 0), Get(response, "Pressure", 0) >>
        ELSE MissingData

\* lines 24-33: a field that is absent reads as None
GetTemperatureAndPressure(data) ==
    LET response == Get(data, "Response", <<>>)
    IN  IF Has(response, "Temperature") /\ Has(response, "Pressure")
        THEN << response["Temperature"], response["Pressure"] >>
        ELSE MissingData

\* ----------------------------------------------------------------- frames
Frame(fn, pc, cmd, arg) ==
    [fn |-> fn, pc |-> pc, n |-> 0, cmd |-> cmd, arg |-> arg, tmp |-> 0, made |-> {}]

Top == stack[Len(stack)]

Pop == SubSeq(stack, 1, Len(stack) - 1)

At(fn, pc) ==
    /\ status = "running"
    /\ exc = "none"
    /\ stack # <<>>
    /\ Top.fn = fn
    /\ Top.pc = pc

\* the step pops the frame on top: the function returns
Returns == Len(stack') = Len(stack) - 1

Goto(pc) == [stack EXCEPT ![Len(stack)].pc = pc]

\* call f, to continue at pc when it returns
Call(pc, f) == Append(Goto(pc), f)

\* Python's exception classes: socket.error is OSError, and ConnectionError
\* derives from OSError; SystemExit and KeyboardInterrupt derive from
\* BaseException only
IsInstance(e, cls) ==
    \/ e = cls
    \/ cls = "OSError" /\ e = "ConnectionError"

Connected == connection # 0 /\ connection \in open /\ connection \in linked

ioVars == <<wrote, pend, readSock, lastRaw>>

sockVars == <<open, linked, nextSock, closes>>

procVars == <<tick, interrupts, status, exitCode, intAt, result>>

encVars == <<encIn, encOut>>

\* ------------------------------------------------------------------- Init
\* main() up to line 133: both objects constructed, connection None, the
\* SIGINT handler registered
SessionInit ==
    /\ stack = << Frame("main", "connect", <<>>, NoData) >>
    /\ exc = "none"
    /\ ret = None
    /\ connection = 0
    /\ open = {}
    /\ linked = {}
    /\ nextSock = 0
    /\ tick = 0
    /\ interrupts = 0
    /\ status = "running"
    /\ exitCode = 0 - 1
    /\ wrote = [s \in Sockets |-> {}]
    /\ pend = [s \in Sockets |-> 0]
    /\ closes = [s \in Sockets |-> 0]
    /\ readSock = 0
    /\ lastRaw = <<>>
    /\ result = <<"none", None>>
    /\ intAt = [fn |-> "none", pc |-> "none", conn |-> 0,
                closes |-> [s \in Sockets |-> 0]]

Init ==
    /\ SessionInit
    /\ encIn = 0
    /\ encOut = <<>>

\* ---------------------------------------------------------------- connect
\* line 53, right-hand side: socket.socket() returns a new open socket; once
\* MaxSockets were created it raises socket.error instead
ConnectSocket ==
    /\ At("connect", "socket")
    /\ \/ /\ nextSock < MaxSockets
          /\ nextSock' = nextSock + 1
          /\ open' = open \cup {nextSock + 1}
          /\ stack' = [stack EXCEPT ![Len(stack)].pc = "store",
                                    ![Len(stack)].tmp = nextSock + 1,
                                    ![Len(stack)].made = @ \cup {nextSock + 1}]
       \/ /\ nextSock >= MaxSockets
          /\ stack' = Goto("except")
          /\ UNCHANGED <<nextSock, open>>
    /\ UNCHANGED <<exc, ret, connection, linked, closes, ioVars, procVars, encVars>>

\* line 53, the assignment: self.connection now names the new socket.  The
\* socket it named before is closed by nothing in the code; whether the
\* interpreter finalises it now (reference counting) or leaves its descriptor
\* open is the interpreter's choice.
ConnectStore ==
    /\ At("connect", "store")
    /\ connection' = Top.tmp
    /\ \E finalised \in BOOLEAN :
          open' = IF connection # 0 /\ finalised THEN open \ {connection} ELSE open
    /\ stack' = [stack EXCEPT ![Len(stack)].pc = "link", ![Len(stack)].tmp = 0]
    /\ UNCHANGED <<exc, ret, linked, nextSock, closes, ioVars, procVars, encVars>>

\* lines 54-56: connect((ip, port)) succeeds and connect() returns, or it
\* raises socket.error
ConnectLink ==
    /\ At("connect", "link")
    /\ \/ /\ linked' = linked \cup {connection}
          /\ stack' = Pop
          /\ ret' = None
       \/ /\ stack' = Goto("except")
          /\ UNCHANGED <<linked, ret>>
    /\ UNCHANGED <<exc, connection, open, nextSock, closes, ioVars, procVars, encVars>>

ConnectExceptSkipsClose ==
    /\ At("connect", "except")
    /\ stack' = Goto("check")
    /\ UNCHANGED <<exc, ret, connection, sockVars, ioVars, procVars, encVars>>

\* lines 57-59: the handler calls self.close()
ConnectExcept ==
    /\ At("connect", "except")
    /\ stack' = Call("check", Frame("close", "test", <<>>, 0))
    /\ UNCHANGED <<exc, ret, connection, sockVars, ioVars, procVars, encVars>>

\* lines 60-61 and the loop header of line 51: attempts are numbered 0, 1, 2
LastAttemptMutant == 2 + 1
LastAttempt == 2

ConnectCheck ==
    /\ At("connect", "check")
    /\ IF Top.n = LastAttempt
       THEN /\ exc' = "ConnectionError"
            /\ UNCHANGED stack
       ELSE /\ stack' = [stack EXCEPT ![Len(stack)].pc = "socket",
                                      ![Len(stack)].n = @ + 1]
            /\ UNCHANGED exc
    /\ UNCHANGED <<ret, connection, sockVars, ioVars, procVars, encVars>>

\* ------------------------------------------------------------------ close
\* line 126
CloseTest ==
    /\ At("close", "test")
    /\ IF connection # 0
       THEN stack' = Goto("sockclose") /\ UNCHANGED ret
       ELSE stack' = Pop /\ ret' = None
    /\ UNCHANGED <<exc, connection, sockVars, ioVars, procVars, encVars>>

\* lines 127-128
CloseSocket ==
    /\ At("close", "sockclose")
    /\ open' = open \ {connection}
    /\ closes' = [closes EXCEPT ![connection] = @ + 1]
    /\ stack' = Goto("setnone")
    /\ UNCHANGED <<exc, ret, connection, linked, nextSock, ioVars, procVars, encVars>>

CloseSetNoneMutant ==
    /\ At("close", "setnone")
    /\ stack' = Pop
    /\ ret' = None
    /\ UNCHANGED <<exc, connection, sockVars, ioVars, procVars, encVars>>

\* line 129
CloseSetNone ==
    /\ At("close", "setnone")
    /\ connection' = 0
    /\ stack' = Pop
    /\ ret' = None
    /\ UNCHANGED <<exc, sockVars, ioVars, procVars, encVars>>

\* ----------------------------------------------------------- send_command
\* line 65: no connection, the function falls off its end and returns None
SendCommandTestConnects ==
    /\ At("send_command", "test")
    /\ IF connection # 0
       THEN stack' = Goto("sendall")
       ELSE stack' = Call("test", Frame("connect", "socket", <<>>, 0))
    /\ UNCHANGED <<exc, ret, connection, sockVars, ioVars, procVars, encVars>>

SendCommandTest ==
    /\ At("send_command", "test")
    /\ IF connection # 0
       THEN stack' = Goto("sendall") /\ UNCHANGED ret
       ELSE stack' = Pop /\ ret' = None
    /\ UNCHANGED <<exc, connection, sockVars, ioVars, procVars, encVars>>

\* lines 67-68: sendall writes the command and receive_response() is called,
\* or sendall raises socket.error and control enters the handler of line 69
SendCommandWrite ==
    /\ At("send_command", "sendall")
    /\ \/ /\ connection \in open \cap linked
          /\ wrote' = [wrote EXCEPT ![connection] = @ \cup {Top.cmd}]
          /\ pend' = [pend EXCEPT ![connection] = @ + 1]
          /\ stack' = Call("ret68", Frame("receive_response", "recv", <<>>, 0))
       \/ /\ stack' = Goto("except")
          /\ UNCHANGED <<wrote, pend>>
    /\ UNCHANGED <<exc, ret, connection, sockVars, readSock, lastRaw, procVars, encVars>>

\* lines 70-71: the handler calls self.connect()
SendCommandReconnect ==
    /\ At("send_command", "except")
    /\ stack' = Call("resend", Frame("connect", "socket", <<>>, 0))
    /\ UNCHANGED <<exc, ret, connection, sockVars, ioVars, procVars, encVars>>

\* line 72: the handler calls self.send_command(command)
SendCommandResend ==
    /\ At("send_command", "resend")
    /\ stack' = Call("ret72", Frame("send_command", "test", Top.cmd, 0))
    /\ UNCHANGED <<exc, ret, connection, sockVars, ioVars, procVars, encVars>>

\* the return of line 68 or of line 72: the callee's value is passed on
SendCommandReturn ==
    /\ At("send_command", "ret68") \/ At("send_command", "ret72")
    /\ stack' = Pop
    /\ UNCHANGED <<exc, ret, connection, sockVars, ioVars, procVars, encVars>>

\* ------------------------------------------------------- receive_response
ReceiveResponseZeroIsLoss ==
    /\ At("receive_response", "recv")
    /\ \/ /\ connection \in open \cap linked
          /\ \E r \in (IF pend[connection] > 0 THEN Responses ELSE {}) \cup {Eof} :
                /\ lastRaw' = r
                /\ ret' = Strip(r)
                /\ stack' = IF r = Eof THEN Goto("except") ELSE Pop
          /\ readSock' = connection
          /\ pend' = [pend EXCEPT ![connection] = IF @ > 0 THEN @ - 1 ELSE 0]
       \/ /\ stack' = Goto("except")
          /\ UNCHANGED <<ret, lastRaw, readSock, pend>>
    /\ UNCHANGED <<exc, connection, sockVars, wrote, procVars, encVars>>

\* lines 77-78: recv returns the mount's answer to an outstanding command, or
\* zero bytes, and the stripped text is returned; or recv raises socket.error.
\* With nothing outstanding and the peer alive recv blocks (no step).
ReceiveResponse ==
    /\ At("receive_response", "recv")
    /\ \/ /\ connection \in open \cap linked
          /\ \E r \in (IF pend[connection] > 0 THEN Responses ELSE {}) \cup {Eof} :
                /\ lastRaw' = r
                /\ ret' = Strip(r)
          /\ readSock' = connection
          /\ pend' = [pend EXCEPT ![connection] = IF @ > 0 THEN @ - 1 ELSE 0]
          /\ stack' = Pop
       \/ /\ stack' = Goto("except")
          /\ UNCHANGED <<ret, lastRaw, readSock, pend>>
    /\ UNCHANGED <<exc, connection, sockVars, wrote, procVars, encVars>>

\* lines 80-81: the handler calls self.connect()
ReceiveReconnect ==
    /\ At("receive_response", "except")
    /\ stack' = Call("reread", Frame("connect", "socket", <<>>, 0))
    /\ UNCHANGED <<exc, ret, connection, sockVars, ioVars, procVars, encVars>>

ReceiveRereadResends ==
    /\ At("receive_response", "reread")
    /\ stack' = Call("ret82", Frame("receive_response", "recv", <<>>, 0))
    /\ wrote' = [s \in Sockets |->
                    IF s = connection THEN wrote[s] \cup {GetPressureCommand}
                    ELSE wrote[s]]
    /\ pend' = [s \in Sockets |->
                   IF s = connection THEN pend[s] + 1 ELSE pend[s]]
    /\ UNCHANGED <<exc, ret, connection, sockVars, readSock, lastRaw,
                   procVars, encVars>>

\* line 82: the handler calls self.receive_response()
ReceiveReread ==
    /\ At("receive_response", "reread")
    /\ stack' = Call("ret82", Frame("receive_response", "recv", <<>>, 0))
    /\ UNCHANGED <<exc, ret, connection, sockVars, ioVars, procVars, encVars>>

\* the return of line 82
ReceiveReturn ==
    /\ At("receive_response", "ret82")
    /\ stack' = Pop
    /\ UNCHANGED <<exc, ret, connection, sockVars, ioVars, procVars, encVars>>

\* ------------------------------------------------------- typed operations
IsAcceptedMutant(response) == response # None /\ response # <<"0">>

\* response == "1"
IsAccepted(response) == response = <<"1">>

\* lines 99-108 and 113-122: the decoded value, or None
Decode(response) ==
    IF response = None \/ response = <<>> THEN None
    ELSE ParseFloat(RStripHash(response))

SetTemperatureRaises ==
    \/ /\ At("setTemperature", "call")
       /\ stack' = Call("ret", Frame("send_command", "test",
                                     SetTemperatureCommand(Top.arg), 0))
       /\ UNCHANGED <<ret, result>>
       /\ wrote' = [s \in Sockets |-> {}]
       /\ readSock' = 0
       /\ lastRaw' = <<>>
       /\ UNCHANGED <<exc, connection, sockVars, pend, tick, interrupts,
                      status, exitCode, intAt, encVars>>
    \/ /\ At("setTemperature", "ret")
       /\ IF IsAccepted(ret)
          THEN /\ result' = <<"setTemperature", TRUE>>
               /\ ret' = None
               /\ stack' = Pop
               /\ UNCHANGED exc
          ELSE /\ exc' = "RuntimeError"
               /\ UNCHANGED <<result, ret, stack>>
       /\ UNCHANGED <<connection, sockVars, ioVars, tick, interrupts,
                      status, exitCode, intAt, encVars>>

\* lines 90-94
SetTemperature ==
    \/ /\ At("setTemperature", "call")
       /\ stack' = Call("ret", Frame("send_command", "test",
                                     SetTemperatureCommand(Top.arg), 0))
       /\ UNCHANGED <<ret, result>>
       /\ wrote' = [s \in Sockets |-> {}]
       /\ readSock' = 0
       /\ lastRaw' = <<>>
       /\ UNCHANGED <<exc, connection, sockVars, pend, tick, interrupts,
                      status, exitCode, intAt, encVars>>
    \/ /\ At("setTemperature", "ret")
       /\ result' = <<"setTemperature", IsAccepted(ret)>>
       /\ ret' = None
       /\ stack' = Pop
       /\ UNCHANGED <<exc, connection, sockVars, ioVars, tick, interrupts,
                      status, exitCode, intAt, encVars>>

\* lines 84-88
SetPressure ==
    \/ /\ At("setPressure", "call")
       /\ stack' = Call("ret", Frame("send_command", "test",
                                     SetPressureCommand(Top.arg), 0))
       /\ UNCHANGED <<ret, result>>
       /\ wrote' = [s \in Sockets |-> {}]
       /\ readSock' = 0
       /\ lastRaw' = <<>>
       /\ UNCHANGED <<exc, connection, sockVars, pend, tick, interrupts,
                      status, exitCode, intAt, encVars>>
    \/ /\ At("setPressure", "ret")
       /\ result' = <<"setPressure", IsAccepted(ret)>>
       /\ ret' = None
       /\ stack' = Pop
       /\ UNCHANGED <<exc, connection, sockVars, ioVars, tick, interrupts,
                      status, exitCode, intAt, encVars>>

\* lines 110-122
GetTemperature ==
    \/ /\ At("getTemperature", "call")
       /\ stack' = Call("ret", Frame("send_command", "test", GetTemperatureCommand, 0))
       /\ UNCHANGED <<ret, result>>
       /\ wrote' = [s \in Sockets |-> {}]
       /\ readSock' = 0
       /\ lastRaw' = <<>>
       /\ UNCHANGED <<exc, connection, sockVars, pend, tick, interrupts,
                      status, exitCode, intAt, encVars>>
    \/ /\ At("getTemperature", "ret")
       /\ result' = <<"getTemperature", Decode(ret)>>
       /\ ret' = None
       /\ stack' = Pop
       /\ UNCHANGED <<exc, connection, sockVars, ioVars, tick, interrupts,
                      status, exitCode, intAt, encVars>>

\* lines 96-108
GetPressure ==
    \/ /\ At("getPressure", "call")
       /\ stack' = Call("ret", Frame("send_command", "test", GetPressureCommand, 0))
       /\ UNCHANGED <<ret, result>>
       /\ wrote' = [s \in Sockets |-> {}]
       /\ readSock' = 0
       /\ lastRaw' = <<>>
       /\ UNCHANGED <<exc, connection, sockVars, pend, tick, interrupts,
                      status, exitCode, intAt, encVars>>
    \/ /\ At("getPressure", "ret")
       /\ result' = <<"getPressure", Decode(ret)>>
       /\ ret' = None
       /\ stack' = Pop
       /\ UNCHANGED <<exc, connection, sockVars, ioVars, tick, interrupts,
                      status, exitCode, intAt, encVars>>

\* ------------------------------------------------------------------- main
\* line 134
MainConnect ==
    /\ At("main", "connect")
    /\ stack' = Call("enter", Frame("connect", "socket", <<>>, 0))
    /\ UNCHANGED <<exc, ret, connection, sockVars, ioVars, procVars, encVars>>

\* lines 137-138: the tick's reading is fetched; two values go on to the
\* mount, anything else goes to the sleep of line 155
MainFetch ==
    /\ At("main", "enter") \/ At("main", "loop")
    /\ \E api \in ApiResults :
          LET data == GetTemperatureAndPressure(api)
          IN  stack' = [stack EXCEPT ![Len(stack)].arg = data,
                                     ![Len(stack)].pc =
                                         IF Len(data) = 2 THEN "setT" ELSE "sleep"]
    /\ UNCHANGED <<exc, ret, connection, sockVars, ioVars, procVars, encVars>>

\* line 142
MainSetTemperature ==
    /\ At("main", "setT")
    /\ stack' = Call("setP", Frame("setTemperature", "call", <<>>, Top.arg[1]))
    /\ UNCHANGED <<exc, ret, connection, sockVars, ioVars, procVars, encVars>>

\* line 143
MainSetPressure ==
    /\ At("main", "setP")
    /\ stack' = Call("getT", Frame("setPressure", "call", <<>>, Top.arg[2]))
    /\ UNCHANGED <<exc, ret, connection, sockVars, ioVars, procVars, encVars>>

\* line 145
MainGetTemperature ==
    /\ At("main", "getT")
    /\ stack' = Call("getP", Frame("getTemperature", "call", <<>>, 0))
    /\ UNCHANGED <<exc, ret, connection, sockVars, ioVars, procVars, encVars>>

\* line 146
MainGetPressure ==
    /\ At("main", "getP")
    /\ stack' = Call("sleep", Frame("getPressure", "call", <<>>, 0))
    /\ UNCHANGED <<exc, ret, connection, sockVars, ioVars, procVars, encVars>>

\* lines 152 and 155: the sleep ends and the next iteration starts
MainSleep ==
    /\ At("main", "sleep")
    /\ tick < MaxTicks
    /\ tick' = tick + 1
    /\ stack' = [stack EXCEPT ![Len(stack)].arg = NoData, ![Len(stack)].pc = "loop"]
    /\ UNCHANGED <<exc, ret, connection, sockVars, ioVars, interrupts, status,
                   exitCode, intAt, result, encVars>>

\* --------------------------------------------------------- signal_handler
\* SIGINT arrives between two steps of the running program: the handler
\* registered at line 41 is called on top of whatever is running
Interrupt ==
    /\ status = "running"
    /\ exc = "none"
    /\ stack # <<>>
    /\ interrupts < MaxInterrupts
    /\ interrupts' = interrupts + 1
    /\ intAt' = IF interrupts = 0
                THEN [fn |-> Top.fn, pc |-> Top.pc, conn |-> connection,
                      closes |-> closes]
                ELSE intAt
    /\ stack' = Append(stack, Frame("signal_handler", "close", <<>>, 0))
    /\ UNCHANGED <<exc, ret, connection, sockVars, ioVars, tick, status,
                   exitCode, result, encVars>>

SignalHandlerCloseMutant ==
    /\ At("signal_handler", "close")
    /\ stack' = Goto("exit")
    /\ UNCHANGED <<exc, ret, connection, sockVars, ioVars, procVars, encVars>>

\* line 46
SignalHandlerClose ==
    /\ At("signal_handler", "close")
    /\ stack' = Call("exit", Frame("close", "test", <<>>, 0))
    /\ UNCHANGED <<exc, ret, connection, sockVars, ioVars, procVars, encVars>>

\* line 47: sys.exit(0) raises SystemExit
SignalHandlerExit ==
    /\ At("signal_handler", "exit")
    /\ exc' = "SystemExit"
    /\ UNCHANGED <<stack, ret, connection, sockVars, ioVars, procVars, encVars>>

\* ------------------------------------------------------------- exceptions
\* the class named by the except clause that guards the frame's current
\* position, "none" when the position is outside every try block:
\* send_command waits for receive_response inside the try of lines 66-68;
\* main is inside the try of lines 136-155 once it has entered the loop
Guard(f) ==
    IF f.fn = "send_command" /\ f.pc = "ret68" THEN "OSError"
    ELSE IF f.fn = "main" /\ f.pc \notin {"connect", "enter"} THEN "KeyboardInterrupt"
    ELSE "none"

Catches(f, e) == Guard(f) # "none" /\ IsInstance(e, Guard(f))

\* one frame of unwinding: the frame on top either catches the exception or
\* is discarded.  send_command's handler is lines 69-72.  main's handler
\* (lines 156-159) closes the connection and raises SystemExit out of main.
\* A socket held only by a discarded connect frame is finalised or not, as
\* the interpreter chooses.
Unwind ==
    /\ status = "running"
    /\ exc # "none"
    /\ stack # <<>>
    /\ IF Catches(Top, exc) /\ Top.fn = "send_command"
       THEN /\ stack' = Goto("except")
            /\ exc' = "none"
            /\ UNCHANGED <<connection, open, closes>>
       ELSE IF Catches(Top, exc) /\ Top.fn = "main"
       THEN /\ stack' = Pop
            /\ exc' = "SystemExit"
            /\ connection' = 0
            /\ open' = open \ {connection}
            /\ closes' = [s \in Sockets |->
                            IF s = connection THEN closes[s] + 1 ELSE closes[s]]
       ELSE /\ stack' = Pop
            /\ \E finalised \in BOOLEAN :
                  open' = IF Top.tmp # 0 /\ finalised THEN open \ {Top.tmp} ELSE open
            /\ UNCHANGED <<exc, connection, closes>>
    /\ UNCHANGED <<ret, linked, nextSock, ioVars, procVars, encVars>>

\* the exception left main: SystemExit(0) ends the process with code 0, any
\* other exception with a traceback and code 1
Terminate ==
    /\ status = "running"
    /\ exc # "none"
    /\ stack = <<>>
    /\ status' = IF exc = "SystemExit" THEN "exited" ELSE "crashed"
    /\ exitCode' = IF exc = "SystemExit" THEN 0 ELSE 1
    /\ UNCHANGED <<stack, exc, ret, connection, sockVars, ioVars, tick,
                   interrupts, intAt, result, encVars>>

Next ==
    \/ ConnectSocket \/ ConnectStore \/ ConnectLink \/ ConnectExcept \/ ConnectCheck
    \/ CloseTest \/ CloseSocket \/ CloseSetNone
    \/ SendCommandTest \/ SendCommandWrite \/ SendCommandReconnect
    \/ SendCommandResend \/ SendCommandReturn
    \/ ReceiveResponse \/ ReceiveReconnect \/ ReceiveReread \/ ReceiveReturn
    \/ SetTemperature \/ SetPressure \/ GetTemperature \/ GetPressure
    \/ MainConnect \/ MainFetch \/ MainSetTemperature \/ MainSetPressure
    \/ MainGetTemperature \/ MainGetPressure \/ MainSleep
    \/ Interrupt \/ SignalHandlerClose \/ SignalHandlerExit
    \/ Unwind \/ Terminate

Spec == Init /\ [][Next]_vars

\* ----------------------------------------------------------------- client
\* the class used directly: a TenMicronManager is constructed (lines 36-41)
\* and its public methods are called one after the other, in any order, each
\* call running to its return (or to the exception it raises) before the next
InitApi ==
    /\ stack = << Frame("client", "idle", <<>>, NoData) >>
    /\ exc = "none"
    /\ ret = None
    /\ connection = 0
    /\ open = {}
    /\ linked = {}
    /\ nextSock = 0
    /\ tick = 0
    /\ interrupts = 0
    /\ status = "running"
    /\ exitCode = 0 - 1
    /\ wrote = [s \in Sockets |-> {}]
    /\ pend = [s \in Sockets |-> 0]
    /\ closes = [s \in Sockets |-> 0]
    /\ readSock = 0
    /\ lastRaw = <<>>
    /\ result = <<"none", None>>
    /\ intAt = [fn |-> "none", pc |-> "none", conn |-> 0,
                closes |-> [s \in Sockets |-> 0]]
    /\ encIn = 0
    /\ encOut = <<>>

\* the calls a client can make, with their arguments
ApiCalls ==
    { Frame("connect", "socket", <<>>, 0), Frame("close", "test", <<>>, 0),
      Frame("getTemperature", "call", <<>>, 0),
      Frame("getPressure", "call", <<>>, 0) }
    \cup { Frame("setTemperature", "call", <<>>, r[1]) : r \in Readings }
    \cup { Frame("setPressure", "call", <<>>, r[2]) : r \in Readings }

ClientCall ==
    /\ At("client", "idle")
    /\ Top.n < MaxCalls
    /\ \E f \in ApiCalls :
          stack' = Append([stack EXCEPT ![Len(stack)].n = @ + 1], f)
    /\ UNCHANGED <<exc, ret, connection, sockVars, ioVars, procVars, encVars>>

NextApi ==
    \/ ClientCall
    \/ ConnectSocket \/ ConnectStore \/ ConnectLink \/ ConnectExcept \/ ConnectCheck
    \/ CloseTest \/ CloseSocket \/ CloseSetNone
    \/ SendCommandTest \/ SendCommandWrite \/ SendCommandReconnect
    \/ SendCommandResend \/ SendCommandReturn
    \/ ReceiveResponse \/ ReceiveReconnect \/ ReceiveReread \/ ReceiveReturn
    \/ SetTemperature \/ SetPressure \/ GetTemperature \/ GetPressure
    \/ Unwind \/ Terminate

SpecApi == InitApi /\ [][NextApi]_vars

\* the frame on top after the step
TopNext == stack'[Len(stack')]

\* ------------------------------------------------------- a well-behaved run
\* main() with a mount and a network that misbehave only finitely often: no
\* SIGINT, every connect() attempt succeeds, the mount never closes the
\* connection (no zero-byte read) and answers each command once on the
\* connection it arrived on, and a write or a read fails only while a socket
\* is left for the reconnect that follows (at most MaxSockets - 1 failures).
\* No socket has a timeout (line 53), so a read with nothing to receive waits.
\* ReceiveReturn has no place here: the read retried at line 82 runs on the
\* connection connect() just made, where the mount has nothing to answer.
LiveConnectLink == ConnectLink /\ Returns

LiveSendCommandWrite ==
    SendCommandWrite /\ (TopNext.pc = "except" => nextSock < MaxSockets)

LiveReceiveResponse ==
    /\ ReceiveResponse
    /\ Returns => lastRaw' # Eof
    /\ ~Returns => nextSock < MaxSockets

NextLive ==
    \/ ConnectSocket \/ ConnectStore \/ LiveConnectLink
    \/ SendCommandTest \/ LiveSendCommandWrite \/ SendCommandReconnect
    \/ SendCommandResend \/ SendCommandReturn
    \/ LiveReceiveResponse \/ ReceiveReconnect \/ ReceiveReread
    \/ SetTemperature \/ SetPressure \/ GetTemperature \/ GetPressure
    \/ MainConnect \/ MainFetch \/ MainSetTemperature \/ MainSetPressure
    \/ MainGetTemperature \/ MainGetPressure \/ MainSleep

\* the interpreter runs the program whenever it has a step to take
SpecLive == Init /\ [][NextLive]_vars /\ WF_vars(NextLive)

\* ------------------------------------------------------------ a flapping link
\* send_command called on a connected session whose link flaps: every write
\* fails, and every connect() succeeds within its 3 attempts.  A socket the
\* session drops is finalised at once (reference counting), and socket()
\* returns a descriptor that is not in use.  The interpreter refuses a call
\* that would nest deeper than RecursionLimit and raises RecursionError.
AtLimit == Len(stack) >= RecursionLimit

FlapClientCall ==
    /\ At("client", "idle")
    /\ \E f \in IF Top.n = 0 THEN { Frame("connect", "socket", <<>>, 0) }
                ELSE IF Top.n = 1 /\ connection # 0
                THEN { Frame("send_command", "test", c, 0) :
                         c \in {GetPressureCommand, GetTemperatureCommand} }
                ELSE {} :
          stack' = Append([stack EXCEPT ![Len(stack)].n = @ + 1], f)
    /\ UNCHANGED <<exc, ret, connection, sockVars, ioVars, procVars, encVars>>

FlapConnectSocket ==
    /\ At("connect", "socket")
    /\ \E s \in Sockets \ open :
          /\ open' = open \cup {s}
          /\ linked' = linked \ {s}
          /\ stack' = [stack EXCEPT ![Len(stack)].pc = "store",
                                    ![Len(stack)].tmp = s,
                                    ![Len(stack)].made = @ \cup {s}]
    /\ UNCHANGED <<exc, ret, connection, nextSock, closes, ioVars, procVars, encVars>>

FlapConnectStore == ConnectStore /\ (connection # 0 => connection \notin open')

FlapConnectLink == ConnectLink /\ (Top.n = LastAttempt => Returns)

FlapConnectExcept == ConnectExcept /\ ~AtLimit

FlapSendCommandWrite == SendCommandWrite /\ TopNext.pc = "except"

FlapSendCommandReconnect == SendCommandReconnect /\ ~AtLimit

FlapSendCommandResend == SendCommandResend /\ ~AtLimit

\* the call of line 59, 71 or 72 would exceed the limit
RecursionOverflow ==
    /\ \/ At("connect", "except")
       \/ At("send_command", "except")
       \/ At("send_command", "resend")
    /\ AtLimit
    /\ exc' = "RecursionError"
    /\ UNCHANGED <<stack, ret, connection, sockVars, ioVars, procVars, encVars>>

NextFlap ==
    \/ FlapClientCall
    \/ FlapConnectSocket \/ FlapConnectStore \/ FlapConnectLink
    \/ FlapConnectExcept \/ ConnectCheck
    \/ CloseTest \/ CloseSocket \/ CloseSetNone
    \/ SendCommandTest \/ FlapSendCommandWrite \/ FlapSendCommandReconnect
    \/ FlapSendCommandResend
    \/ RecursionOverflow \/ Unwind \/ Terminate

SpecFlap == InitApi /\ [][NextFlap]_vars

\* ---------------------------------------------------------------- encoder
\* the command-building expression of setTemperature (line 92) applied to
\* every temperature of a bounded range, in steps of 1 / Unit degree
TempInputs == (0 - MaxTemp * Unit)..(MaxTemp * Unit)

InitEncode ==
    /\ SessionInit
    /\ encIn \in TempInputs
    /\ encOut = <<>>

EncodeTemperature ==
    /\ encOut = <<>>
    /\ encOut' = SetTemperatureCommand(encIn)
    /\ UNCHANGED <<encIn, sessionVars>>

NextEncode == EncodeTemperature

SpecEncode == InitEncode /\ [][NextEncode]_vars

\* ================================================================ claims
Running == status = "running" /\ exc = "none" /\ stack # <<>>


\* C1: whenever send_command is about to return a response, its command was
\* written on the connection that response was read from (so a connection
\* error on the write or on the read was followed by a re-send on the new
\* connection before any result is returned).
C1_ResendBeforeReturn ==
    (/\ Running
     /\ Top.fn = "send_command"
     /\ Top.pc \in {"ret68", "ret72"}
     /\ ret # None)
    => (readSock \in Sockets /\ Top.cmd \in wrote[readSock])

\* C2: a ConnectionError raised by an exhausted connect() stays in flight until
\* it has left the typed operation: no frame of the session catches it (and so
\* none can start a further connection attempt for that operation).
C2_ExhaustionPropagates ==
    [][(/\ status = "running"
        /\ exc = "ConnectionError"
        /\ stack # <<>>
        /\ Top.fn # "main")
       => exc' = "ConnectionError"]_vars

\* C3: one connect() call makes at most 3 attempts (numbered 0..2, one socket
\* each at most); it returns only on a successful attempt and then the session
\* is Connected on that attempt's socket; it raises ConnectionError exactly when
\* the attempt numbered 2 has failed, and then self.connection is None and every
\* socket the call opened is closed.
C3_ConnectFrames ==
    \A i \in 1..Len(stack) :
        stack[i].fn = "connect"
        => /\ stack[i].n \in 0..2
           /\ Cardinality(stack[i].made) <= stack[i].n + 1

C3_ConnectStep ==
    (Running /\ Top.fn = "connect")
    => /\ Returns
          => /\ Top.pc = "link"
             /\ exc' = "none"
             /\ connection' # 0
             /\ connection' \in Top.made
             /\ connection' \in open' \cap linked'
       /\ exc' = "ConnectionError"
          => /\ Top.pc = "check"
             /\ Top.n = 2
             /\ connection' = 0
             /\ Top.made \cap open' = {}
       /\ (Top.pc = "check" /\ Top.n = 2 /\ interrupts' = interrupts)
          => exc' = "ConnectionError"

C4_AtMostOneOpen == Cardinality(open) <= 1

\* C5: strictly request/response: at most one written command is without a
\* completed response read (so none is written while another is unanswered),
\* and a response read is only attempted on a connection that has a command
\* outstanding.
C5_RequestResponse ==
    /\ \A s \in Sockets : pend[s] <= 1
    /\ Cardinality({s \in Sockets : pend[s] > 0}) <= 1
    /\ (Running /\ Top.fn = "receive_response" /\ Top.pc = "recv")
       => pend[connection] >= 1

\* C6: close() is idempotent: a call made with self.connection None closes
\* nothing and changes no session state; a call made on a connection calls
\* socket.close() on it once, at line 127 only, and returns with
\* self.connection None and that socket closed.
C6_CloseStep ==
    (Running /\ Top.fn = "close")
    => /\ connection = 0
          => (connection' = 0 /\ open' = open /\ linked' = linked /\ closes' = closes)
       /\ (Top.pc = "sockclose" /\ Len(stack') = Len(stack))
          => /\ closes' = [closes EXCEPT ![connection] = @ + 1]
             /\ open' = open \ {connection}
       /\ Top.pc # "sockclose" => closes' = closes
       /\ Returns
          => /\ connection' = 0
             /\ connection \notin open'
             /\ exc' = "none"

C6_CloseIdempotent == [][C6_CloseStep]_vars

\* C6 witness: close() is entered on a session that an earlier close() call
\* already disconnected
C6_Witness ==
    /\ Running
    /\ Top.fn = "close"
    /\ Top.pc = "test"
    /\ connection = 0
    /\ \E s \in Sockets : closes[s] = 1

\* C7: after a single SIGINT that arrived while main was in its sleep, the
\* process ends by SystemExit with exit code 0 (no crash), the connection the
\* session held was closed exactly once and no other close happened, and the
\* SystemExit is not taken by the loop's except KeyboardInterrupt clause.
C7_InterruptInSleep ==
    (interrupts = 1 /\ intAt.fn = "main" /\ intAt.pc = "sleep")
    => /\ status # "crashed"
       /\ (status = "running" /\ exc # "none") => exc = "SystemExit"
       /\ (status = "running" /\ exc # "none" /\ stack # <<>>) => ~Catches(Top, exc)
       /\ status = "exited"
          => /\ exitCode = 0
             /\ intAt.conn # 0
             /\ intAt.conn \notin open
             /\ connection = 0
             /\ closes = [intAt.closes EXCEPT ![intAt.conn] = @ + 1]

\* C7 witness: the process has exited after a SIGINT taken in the sleep
C7_Witness ==
    /\ status = "exited"
    /\ interrupts = 1
    /\ intAt.fn = "main"
    /\ intAt.pc = "sleep"
    /\ closes[intAt.conn] = 1

\* C8: once a SIGINT was delivered the process ends with exit code 0 and, when
\* it has ended, no socket the session ever opened is still open.
C8_InterruptLeavesNoSocket ==
    (interrupts >= 1 /\ status # "running")
    => (status = "exited" /\ exitCode = 0 /\ open = {})

NotSpace(c) == ~IsSpace(c)

\* C9: a setter returns TRUE exactly when the bytes read for its command are
\* the one character "1" with nothing but whitespace around it; it returns
\* normally whatever the response; and no step other than the exhausted
\* connect() and the handler's sys.exit raises an exception.
C9_SetterStep ==
    /\ \A fn \in {"setTemperature", "setPressure"} :
          (Running /\ Top.fn = fn /\ Top.pc = "ret" /\ Returns)
          => /\ exc' = "none"
             /\ result' = <<fn, readSock # 0 /\ ret # None
                                /\ SelectSeq(lastRaw, NotSpace) = <<"1">>>>
    /\ (exc = "none" /\ exc' # "none")
       => (Top.fn = "connect" \/ Top.fn = "signal_handler")

C9_SetterResult == [][C9_SetterStep]_vars

\* C9 witness: a setter returned true for the response "1\n"
C9_Witness ==
    /\ result = <<"setTemperature", TRUE>>
    /\ lastRaw = <<"1", "\n">>
    /\ Running
    /\ Top.fn = "main"
    /\ Top.pc = "setP"

\* the parameter field of a set-temperature command
Field(cmd) == SubSeq(cmd, 7, Len(cmd) - 1)

C11_SevenAsInSpec ==
    (encIn = 7 * Unit /\ encOut # <<>>)
    => encOut = <<":", "S", "R", "T", "M", "P", "+", "0", "7", ".", "0", "#">>

\* C11 amended: the command built for the temperature 7.0 is :SRTMP+007.0#
\* (format +06.1f: six characters, so two padding zeros).
C11_SevenSixWide ==
    (encIn = 7 * Unit /\ encOut # <<>>)
    => encOut = <<":", "S", "R", "T", "M", "P", "+", "0", "0", "7", ".", "0", "#">>

\* C11 witness: the temperature 7.0 has been encoded
C11_Witness == encIn = 7 * Unit /\ Len(encOut) = 13

Getters == {"getTemperature", "getPressure"}

Setters == {"setTemperature", "setPressure"}

CommandOf(fn, arg) ==
    IF fn = "setTemperature" THEN SetTemperatureCommand(arg)
    ELSE IF fn = "setPressure" THEN SetPressureCommand(arg)
    ELSE IF fn = "getTemperature" THEN GetTemperatureCommand
    ELSE GetPressureCommand

\* a typed operation of fns is running, uninterrupted, and send_command's read
\* has delivered its response
ResponseRead(fns) ==
    /\ status = "running"
    /\ exc = "none"
    /\ interrupts = 0
    /\ Len(stack) >= 2
    /\ stack[2].fn \in fns
    /\ readSock # 0
    /\ ret # None

NoDigit(s) == \A i \in 1..Len(s) : ~IsDigit(s[i])

\* C12: once a getter's read has delivered a response with no digit in it (so
\* not a number, with or without a trailing #), nothing but returns happens
\* until the getter has returned None: no write, no connection attempt, no
\* change of the connection, no exception; and each connection carries at
\* most that one command of the call.
C12_Step ==
    (ResponseRead(Getters) /\ NoDigit(ret) /\ interrupts' = 0)
    => /\ Len(stack') = Len(stack) - 1
       /\ exc' = "none"
       /\ status' = "running"
       /\ wrote' = wrote
       /\ pend' = pend
       /\ nextSock' = nextSock
       /\ connection' = connection
       /\ open' = open
       /\ linked' = linked
       /\ \A s \in Sockets : wrote[s] \subseteq {CommandOf(stack[2].fn, stack[2].arg)}
       /\ Len(stack') = 1 => result' = <<stack[2].fn, None>>

C12_NonNumericUnavailable == [][C12_Step]_vars

\* C12 witness: getPressure returned None for the response "e" and main went on
C12_Witness ==
    /\ Running
    /\ Top.fn = "main"
    /\ Top.pc = "sleep"
    /\ result = <<"getPressure", None>>
    /\ lastRaw = <<"e">>
    /\ Connected


\* C13: a call_api result that is an error dict or lacks a field gives no
\* reading; the fetch step of such a tick leads main straight to the sleep with
\* nothing written, no connection attempt, no exception; and the sleep of such
\* a tick ends in the next iteration.
C13_NoReading ==
    \A api \in ApiResults :
        (\/ ~Has(api, "Response")
         \/ ~Has(Get(api, "Response", <<>>), "Temperature")
         \/ ~Has(Get(api, "Response", <<>>), "Pressure"))
        => Len(GetTemperatureAndPressure(api)) # 2

C13_Step ==
    /\ ((At("main", "enter") \/ At("main", "loop")) /\ interrupts' = interrupts
        /\ Len(TopNext.arg) # 2)
       => /\ Len(stack') = 1
          /\ TopNext.pc = "sleep"
          /\ exc' = "none"
          /\ status' = "running"
          /\ UNCHANGED <<wrote, pend, nextSock, connection, open>>
    /\ (At("main", "sleep") /\ Len(Top.arg) # 2 /\ interrupts' = interrupts)
       => /\ Len(stack') = 1
          /\ TopNext.pc = "loop"
          /\ tick' = tick + 1
          /\ exc' = "none"
          /\ status' = "running"
          /\ UNCHANGED <<wrote, pend, nextSock, connection, open>>

C13_NoDataTick == [](C13_NoReading) /\ [][C13_Step]_vars

\* C13 witness: the next iteration has started after a tick without data, no
\* typed operation having run and nothing being outstanding on the connection
C13_Witness ==
    /\ At("main", "loop")
    /\ tick = 1
    /\ result[1] = "none"
    /\ Connected
    /\ pend[connection] = 0
    /\ interrupts = 0

TypedOps == Setters \cup Getters

\* main's position after the typed operation fn has returned
AfterOp(fn) ==
    IF fn = "setTemperature" THEN "setP"
    ELSE IF fn = "setPressure" THEN "getT"
    ELSE IF fn = "getTemperature" THEN "getP"
    ELSE "sleep"

\* the typed operation main calls at position pc
OpAt(pc) ==
    IF pc = "setT" THEN "setTemperature"
    ELSE IF pc = "setP" THEN "setPressure"
    ELSE IF pc = "getT" THEN "getTemperature"
    ELSE "getPressure"

\* C14: a tick with a reading calls setTemperature, setPressure,
\* getTemperature, getPressure in that order, each sending its own command;
\* whatever a typed operation got as its response (a rejection, a value that
\* is unavailable), it returns normally to main, which goes on with the next
\* command, and after the last one with the sleep and the next iteration.
C14_Step ==
    interrupts' = interrupts
    => /\ ((At("main", "enter") \/ At("main", "loop")) /\ Len(TopNext.arg) = 2)
          => TopNext.pc = "setT"
       /\ \A pc \in {"setT", "setP", "getT", "getP"} :
             At("main", pc)
             => /\ Len(stack') = 2
                /\ TopNext.fn = OpAt(pc)
                /\ stack'[1].pc = AfterOp(OpAt(pc))
       /\ \A fn \in TypedOps :
             /\ At(fn, "call")
                => /\ TopNext.fn = "send_command"
                   /\ TopNext.cmd = CommandOf(fn, Top.arg)
             /\ (At(fn, "ret") /\ Len(stack) = 2 /\ stack[1].fn = "main")
                => /\ stack' = <<stack[1]>>
                   /\ stack[1].pc = AfterOp(fn)
                   /\ result'[1] = fn
                   /\ exc' = "none"
                   /\ status' = "running"
       /\ (At("main", "sleep") /\ Len(Top.arg) = 2)
          => /\ TopNext.pc = "loop"
             /\ tick' = tick + 1
             /\ exc' = "none"
             /\ status' = "running"

C14_DataErrorsNotFatal == [][C14_Step]_vars

\* C14 witness: setPressure was rejected ("0") and main is at getTemperature
C14_Witness ==
    /\ At("main", "getT")
    /\ result = <<"setPressure", FALSE>>
    /\ lastRaw = <<"0">>

\* the running frame is the read that receive_response retries at line 82
RetriedRead ==
    /\ At("receive_response", "recv")
    /\ Len(stack) >= 2
    /\ stack[Len(stack) - 1].fn = "receive_response"
    /\ stack[Len(stack) - 1].pc = "ret82"

\* C15: after a read error receive_response calls connect(), and when that
\* returns it calls receive_response again: it retries the read alone.
\* Neither step writes anything, and the retried read runs on a connection
\* on which this operation has written no command (none is outstanding).
C15_Step ==
    interrupts' = interrupts
    => /\ At("receive_response", "except")
          => /\ Len(stack') = Len(stack) + 1
             /\ TopNext.fn = "connect"
             /\ stack'[Len(stack)].pc = "reread"
             /\ wrote' = wrote /\ pend' = pend
       /\ At("receive_response", "reread")
          => /\ Len(stack') = Len(stack) + 1
             /\ TopNext.fn = "receive_response"
             /\ TopNext.pc = "recv"
             /\ stack'[Len(stack)].pc = "ret82"
             /\ wrote' = wrote /\ pend' = pend
       /\ At("receive_response", "ret82")
          => /\ stack' = Pop
             /\ ret' = ret
             /\ wrote' = wrote /\ pend' = pend

C15_RetriesReadOnly ==
    /\ [](RetriedRead => /\ Connected
                         /\ wrote[connection] = {}
                         /\ pend[connection] = 0)
    /\ [][C15_Step]_vars

\* C15 witness: the command went out on socket 1, the read failed, connect()
\* made socket 2 and the read is being retried there
C15_Witness ==
    /\ RetriedRead
    /\ connection = 2
    /\ wrote[1] # {}
    /\ interrupts = 0

\* C18: when a connect() call starts its 2nd or 3rd attempt (n = 1, 2 at the
\* top of the loop body), every socket its earlier attempts opened has been
\* closed and the connection is absent.
C18_FailedAttemptTornDown ==
    \A i \in 1..Len(stack) :
        (stack[i].fn = "connect" /\ stack[i].pc = "socket" /\ stack[i].n >= 1)
        => /\ stack[i].made \cap open = {}
           /\ connection = 0

\* C18 witness: the 3rd attempt starts after two attempts that each opened a
\* socket and failed to connect it
C18_Witness ==
    /\ At("connect", "socket")
    /\ Top.n = 2
    /\ Cardinality(Top.made) = 2
    /\ closes[1] = 1 /\ closes[2] = 1

\* C20: once a read of the running typed operation has returned zero bytes,
\* every further step of the operation is a return: the empty response goes
\* up through send_command unchanged, nothing is written, no socket is
\* created, the connection stays the connected one, and the operation
\* reports FALSE (a setter) or None (a getter).
C20_Step ==
    (ResponseRead(TypedOps) /\ lastRaw = Eof /\ Connected /\ interrupts' = 0)
    => /\ Returns
       /\ exc' = "none"
       /\ status' = "running"
       /\ wrote' = wrote
       /\ nextSock' = nextSock
       /\ connection' = connection
       /\ Connected'
       /\ Len(stack') >= 2 => ret' = <<>>
       /\ Len(stack') = 1
          => result' = <<stack[2].fn,
                         IF stack[2].fn \in Setters THEN FALSE ELSE None>>

C20_ZeroBytesNotLoss == [][C20_Step]_vars

\* C20 witness: setPressure wrote its command once, on the first connection,
\* read zero bytes there and reported FALSE; the session is still connected
C20_Witness ==
    /\ At("main", "getT")
    /\ result = <<"setPressure", FALSE>>
    /\ readSock = 1
    /\ lastRaw = Eof
    /\ wrote[1] = {SetPressureCommand(stack[1].arg[2])}
    /\ connection = 1
    /\ Connected
    /\ nextSock = 1

\* C19: with no connection, send_command returns None at once: it writes
\* nothing, creates no socket, raises nothing and leaves the connection
\* absent; the typed operation that called it then returns FALSE (a setter)
\* or None (a getter), having written nothing, with the connection absent.
C19_Step ==
    /\ (At("send_command", "test") /\ connection = 0)
       => /\ Returns
          /\ ret' = None
          /\ exc' = "none"
          /\ UNCHANGED <<connection, open, linked, nextSock, wrote, pend>>
    /\ \A fn \in TypedOps :
          (At(fn, "ret") /\ ret = None)
          => /\ Returns
             /\ result' = <<fn, IF fn \in Setters THEN FALSE ELSE None>>
             /\ exc' = "none"
             /\ connection = 0
             /\ \A s \in Sockets : wrote[s] = {}
             /\ readSock = 0
             /\ UNCHANGED <<connection, open, linked, nextSock, wrote, pend>>

C19_DisconnectedNoop == [][C19_Step]_vars

\* C19 witness: connect(), close(), then setPressure, which returned FALSE
\* without a write or a second socket
C19_Witness ==
    /\ At("client", "idle")
    /\ Top.n = 3
    /\ result = <<"setPressure", FALSE>>
    /\ connection = 0
    /\ nextSock = 1
    /\ closes[1] = 1
    /\ \A s \in Sockets : wrote[s] = {}

\* a send_command call is on the stack
InSendCommand ==
    /\ Running
    /\ \E i \in 1..Len(stack) : stack[i].fn = "send_command"

\* C16: in a well-behaved run (finitely many connection errors, every
\* reconnect succeeding, one response per command on the connection the
\* command arrived on) a send_command call never waits forever: as long as
\* the call is running the program has a step to take, up to its return.
C16_NeverWaitsForever == InSendCommand => ENABLED NextLive

\* C17: on a flapping link (every reconnect succeeding within 3 attempts,
\* every write failing) a send_command call neither returns nor raises: once
\* called it stays on the stack, and no exception is ever in flight.
C17_FlapsForever ==
    /\ exc = "none"
    /\ status = "running"
    /\ (stack # <<>> /\ stack[1].n = 2)
       => (Len(stack) >= 2 /\ stack[2].fn = "send_command")

====
